---- MODULE Spec2Model ----
(***************************************************************************)
(* A model of src/index.ts: the in-memory e-commerce backend.  The         *)
(* repositories (InMemoryDatabase instances) are functions from ids to     *)
(* records.  Every service method is one action, because no method body    *)
(* contains an await: a call runs from its first statement to its return   *)
(* without any other call running in between.  Each method is written as   *)
(* an operator from the collections and the arguments to the collections   *)
(* it leaves and the ApiResponse it returns; the action applies it.        *)
(*                                                                         *)
(* Abstractions.  In the service collections only the fields the services  *)
(* compute with are kept (names, descriptions, addresses, the payment      *)
(* method and updatedAt are left out; createdAt is kept for users, whose   *)
(* authentication reads it) and ids are numbered in the order              *)
(* InMemoryDatabase.add issues them.  The ids as add builds them, from     *)
(* the clock and a random tail, and the dates it and update write are in   *)
(* the collection of SpecRepo.  Prices and amounts are integers, a         *)
(* product's rating is counted in tenths.  The clock never goes back; it   *)
(* may advance between calls and between the two reads of registerUser     *)
(* and of add.                                                             *)
(*                                                                         *)
(* Specifications.  SpecStock: registration, the catalog's addProduct and  *)
(* the order workflow, with line items of every shape.  SpecPay: the user, *)
(* catalog, order and payment services and the clock, with one product     *)
(* and orders of at most one line item.  SpecConc: two createOrder calls   *)
(* started together.  SpecReview: the catalog and the review service.      *)
(* SpecUser: the user directory and the clock.  SpecRepo: one repository   *)
(* with add, update, delete and the clock.                                 *)
(***************************************************************************)
EXTENDS Integers, Sequences, FiniteSets, TLC

\* ---------------------------------------------------------------- bounds
MaxUsers == 1
MaxProducts == 2
MaxOrders == 1
MaxPayProducts == 1
MaxPayments == 2
MaxItems == 2
MaxStock == 2
MaxClock == 1
MaxDirUsers == 2
MaxReviewProducts == 2
MaxReviews == 3
MaxRepoClock == 1
MaxDirClock == 2

\* ---------------------------------------------------------------- inputs
UserIds == 1..(MaxUsers + 1)
ProductIds == 1..MaxProducts
OrderIds == 1..(MaxOrders + 1)
Usernames == {"alice", "bob"}
Secrets == {"pw"}
PriceInputs == {0, 1, 2}
StockInputs == {-1, 0, 2}
Quantities == {-1, 1, 2}

\* the user directory on its own: ids, secrets, the time that passes inside
\* a registerUser call, and the Partial<User> values of updateUserProfile
DirUserIds == 1..(MaxDirUsers + 1)
DirSecrets == {"pw", "pw2"}
Elapsed == {0, 1}
ProfileUpdates == {[username |-> n] : n \in Usernames} \cup {[phone |-> "555"]}

\* the review aggregator on its own: ratings offered to submitReview, and
\* the Partial<Product> values of updateProduct, rating and reviewsCount
\* among them.  A product's rating is kept in tenths (40 is 4.0).
RatingInputs == {0, 3, 4, 5, 6}
Reviewers == {1}
ReviewedProductUpdates ==
    {[price |-> 2], [rating |-> 10], [reviewsCount |-> 0]}

\* one repository on its own: what Math.random().toString(36).substring(2, 9)
\* can give, the ids add can build, the records handed to add and the
\* Partial<Omit<T, 'id' | 'createdAt'>> values handed to update
RandomTails == {"a", "b"}
RepoIds == (0..MaxRepoClock) \X RandomTails
RepoItems == {[value |-> v] : v \in {0, 1}}
RepoUpdates ==
    {[value |-> 1], [note |-> "x"], [updatedAt |-> 0], [value |-> 0, note |-> "x"]}

\* enum OrderStatus
OrderStatus == {"Pending", "Processing", "Shipped", "Delivered", "Cancelled"}

\* the gateway's decision, Math.random() > 0.1
GatewayOutcomes == {"Success", "Failed"}

LineItems == [productId : ProductIds, quantity : Quantities]

ItemLists == UNION {[1..n -> LineItems] : n \in 0..MaxItems}

\* Partial<Product> values handed to updateProduct
ProductUpdates ==
    {[price |-> p] : p \in {1, 2}} \cup {[stock |-> s] : s \in {0, 2}}
      \cup {[price |-> p, stock |-> s] : p \in {1, 2}, s \in {0, 2}}

VARIABLES
    usersDb,      \* InMemoryDatabase<User>.collection
    productsDb,   \* InMemoryDatabase<Product>.collection
    ordersDb,     \* InMemoryDatabase<Order>.collection
    paymentsDb,   \* InMemoryDatabase<PaymentTransaction>.collection
    reviewsDb,    \* InMemoryDatabase<Review>.collection
    collection,   \* the collection of one InMemoryDatabase, ids as add builds them
    issued,       \* how many ids each repository has issued
    now,          \* the wall clock read by Date.now() / new Date()
    batch,        \* createOrder calls started together (SpecConc)
    base          \* stock of each product when the batch was started

vars ==
    <<usersDb, productsDb, ordersDb, paymentsDb, reviewsDb, collection,
      issued, now, batch, base>>

\* ------------------------------------------------------- InMemoryDatabase
Empty == [x \in {} |-> {}]

\* { ...existing, ...updates }
Merge(existing, updates) ==
    [f \in DOMAIN existing \cup DOMAIN updates |->
        IF f \in DOMAIN updates THEN updates[f] ELSE existing[f]]

\* add: the record under its new id
DbAdd(db, id, item) == (id :> Merge(item, [id |-> id])) @@ db

\* update: an absent id leaves the collection alone
DbUpdate(db, id, updates) ==
    IF id \notin DOMAIN db THEN db
    ELSE [db EXCEPT ![id] = Merge(@, updates)]

DbDelete(db, id) == [k \in DOMAIN db \ {id} |-> db[k]]

DbFindBy(db, key, value) == {k \in DOMAIN db : db[k][key] = value}

\* ------------------------------------------------------------ ApiResponse
Ok(data) == [success |-> TRUE, error |-> "", data |-> {data}]

Fail(error) == [success |-> FALSE, error |-> error, data |-> {}]

\* The state a call starts from, and the shape of what it leaves.
Here(resp) ==
    [usersDb |-> usersDb, productsDb |-> productsDb, ordersDb |-> ordersDb,
     paymentsDb |-> paymentsDb, reviewsDb |-> reviewsDb, issued |-> issued,
     resp |-> resp]

\* The collections after a call with outcome c.
ApplyDb(c) ==
    /\ usersDb' = c.usersDb
    /\ productsDb' = c.productsDb
    /\ ordersDb' = c.ordersDb
    /\ paymentsDb' = c.paymentsDb
    /\ reviewsDb' = c.reviewsDb
    /\ issued' = c.issued
    /\ UNCHANGED collection

\* The step of a call with outcome c.
Apply(c) == ApplyDb(c) /\ UNCHANGED <<now, batch, base>>

\* ------------------------------------------------------------ UserService
\* `hashed_${secret}_${time}`
Hashed(secret, time) == <<"hashed", secret, time>>

\* `elapsed` is the time that passes between Date.now() in registerUser,
\* which goes into the hash, and new Date() in add, which is createdAt.
RegisterUserCall(username, secret, elapsed) ==
    IF DbFindBy(usersDb, "username", username) # {}
    THEN Here(Fail("Username already exists."))
    ELSE LET id == issued.users + 1
             db == DbAdd(usersDb, id,
                         [username |-> username,
                          passwordHash |-> Hashed(secret, now),
                          createdAt |-> now + elapsed])
         IN [Here(Ok(db[id])) EXCEPT
               !.usersDb = db, !.issued = [issued EXCEPT !.users = id]]

RegisterUser(username, secret, elapsed) ==
    /\ ApplyDb(RegisterUserCall(username, secret, elapsed))
    /\ now' = now + elapsed
    /\ UNCHANGED <<batch, base>>

\* findBy(..)[0]: the first match in the order of insertion
FirstOf(ids) == CHOOSE i \in ids : \A j \in ids : i <= j

\* the response of authenticateUser over the user collection db
Authenticate(db, username, secret) ==
    LET users == DbFindBy(db, "username", username) IN
    IF users = {} THEN Fail("User not found.")
    ELSE LET user == db[FirstOf(users)] IN
         IF user.passwordHash = Hashed(secret, user.createdAt)
         THEN Ok(user)
         ELSE Fail("Invalid credentials.")

AuthenticateUserCall(username, secret) ==
    Here(Authenticate(usersDb, username, secret))

AuthenticateUser(username, secret) == Apply(AuthenticateUserCall(username, secret))

\* const { passwordHash, ...safeUser } = user
Without(record, field) == [f \in DOMAIN record \ {field} |-> record[f]]

GetUserProfileCall(userId) ==
    IF userId \notin DOMAIN usersDb
    THEN Here(Fail("User not found."))
    ELSE Here(Ok(Without(usersDb[userId], "passwordHash")))

GetUserProfile(userId) == Apply(GetUserProfileCall(userId))

UpdateUserProfileCall(userId, updates) ==
    IF userId \notin DOMAIN usersDb
    THEN Here(Fail("User not found."))
    ELSE LET db == DbUpdate(usersDb, userId, updates)
         IN [Here(Ok(Without(db[userId], "passwordHash"))) EXCEPT !.usersDb = db]

UpdateUserProfile(userId, updates) == Apply(UpdateUserProfileCall(userId, updates))

\* --------------------------------------------------------- ProductService
AddProductCall(price, stock) ==
    IF price <= 0 \/ stock < 0
    THEN Here(Fail("Price and stock must be positive."))
    ELSE LET id == issued.products + 1
             db == DbAdd(productsDb, id, [price |-> price, stock |-> stock])
         IN [Here(Ok(db[id])) EXCEPT
               !.productsDb = db, !.issued = [issued EXCEPT !.products = id]]

AddProduct(price, stock) == Apply(AddProductCall(price, stock))

\* UpdateProductCall with the orders' captured prices following the catalog
UpdateProductCallReprice(productId, updates) ==
    IF productId \notin DOMAIN productsDb
    THEN Here(Fail("Product not found."))
    ELSE LET db == DbUpdate(productsDb, productId, updates)
             Reprice(order) ==
                 LET its == [i \in DOMAIN order.items |->
                               IF order.items[i].productId = productId
                               THEN [order.items[i] EXCEPT !.priceAtOrder = db[productId].price]
                               ELSE order.items[i]]
                 IN [order EXCEPT !.items = its]
         IN [Here(Ok(db[productId])) EXCEPT
               !.productsDb = db,
               !.ordersDb = [o \in DOMAIN ordersDb |-> Reprice(ordersDb[o])]]

UpdateProductCall(productId, updates) ==
    IF productId \notin DOMAIN productsDb
    THEN Here(Fail("Product not found."))
    ELSE LET db == DbUpdate(productsDb, productId, updates)
         IN [Here(Ok(db[productId])) EXCEPT !.productsDb = db]

UpdateProduct(productId, updates) == Apply(UpdateProductCall(productId, updates))

GetProductCall(productId) ==
    IF productId \notin DOMAIN productsDb
    THEN Here(Fail("Product not found."))
    ELSE Here(Ok(productsDb[productId]))

GetProduct(productId) == Apply(GetProductCall(productId))

\* getAllProducts without a category
GetAllProductsCall == Here(Ok({productsDb[p] : p \in DOMAIN productsDb}))

GetAllProducts == Apply(GetAllProductsCall)

\* DeleteProductCall answering a deletion with a bare success
DeleteProductCallBare(productId) ==
    IF productId \notin DOMAIN productsDb
    THEN Here(Fail("Product not found."))
    ELSE [Here([success |-> TRUE, error |-> "", data |-> {}]) EXCEPT
            !.productsDb = DbDelete(productsDb, productId)]

DeleteProductCall(productId) ==
    IF productId \notin DOMAIN productsDb
    THEN Here(Fail("Product not found."))
    ELSE [Here(Ok(TRUE)) EXCEPT !.productsDb = DbDelete(productsDb, productId)]

DeleteProduct(productId) == Apply(DeleteProductCall(productId))

\* ----------------------------------------------------------- OrderService
\* CreateOrderLoop adding the price, not price * quantity, to the total
RECURSIVE CreateOrderLoopUnitPrice(_, _, _, _)
CreateOrderLoopUnitPrice(items, pdb, orderItems, totalAmount) ==
    IF items = <<>>
    THEN [ok |-> TRUE, error |-> "", pdb |-> pdb,
          orderItems |-> orderItems, totalAmount |-> totalAmount]
    ELSE LET item == Head(items) IN
         IF item.productId \notin DOMAIN pdb
         THEN [ok |-> FALSE, error |-> "Product not found.", pdb |-> pdb,
               orderItems |-> orderItems, totalAmount |-> totalAmount]
         ELSE LET product == pdb[item.productId] IN
              IF product.stock < item.quantity
              THEN [ok |-> FALSE, error |-> "Not enough stock.", pdb |-> pdb,
                    orderItems |-> orderItems, totalAmount |-> totalAmount]
              ELSE CreateOrderLoopUnitPrice(
                     Tail(items),
                     DbUpdate(pdb, product.id, [stock |-> product.stock - item.quantity]),
                     Append(orderItems, [productId |-> product.id,
                                         quantity |-> item.quantity,
                                         priceAtOrder |-> product.price]),
                     totalAmount + product.price)

\* The for loop of createOrder: each line item is looked up in the
\* collection as the earlier items of the same call have left it.
RECURSIVE CreateOrderLoop(_, _, _, _)
CreateOrderLoop(items, pdb, orderItems, totalAmount) ==
    IF items = <<>>
    THEN [ok |-> TRUE, error |-> "", pdb |-> pdb,
          orderItems |-> orderItems, totalAmount |-> totalAmount]
    ELSE LET item == Head(items) IN
         IF item.productId \notin DOMAIN pdb
         THEN [ok |-> FALSE, error |-> "Product not found.", pdb |-> pdb,
               orderItems |-> orderItems, totalAmount |-> totalAmount]
         ELSE LET product == pdb[item.productId] IN
              IF product.stock < item.quantity
              THEN [ok |-> FALSE, error |-> "Not enough stock.", pdb |-> pdb,
                    orderItems |-> orderItems, totalAmount |-> totalAmount]
              ELSE CreateOrderLoop(
                     Tail(items),
                     DbUpdate(pdb, product.id, [stock |-> product.stock - item.quantity]),
                     Append(orderItems, [productId |-> product.id,
                                         quantity |-> item.quantity,
                                         priceAtOrder |-> product.price]),
                     totalAmount + product.price * item.quantity)

NewOrder(userId, orderItems, totalAmount) ==
    [userId |-> userId, items |-> orderItems, totalAmount |-> totalAmount,
     status |-> "Pending", paymentStatus |-> "Unpaid",
     shippedDate |-> {}, deliveredDate |-> {}]

CreateOrderCall(userId, items) ==
    IF userId \notin DOMAIN usersDb
    THEN Here(Fail("User not found."))
    ELSE LET r == CreateOrderLoop(items, productsDb, <<>>, 0) IN
         IF ~r.ok
         THEN [Here(Fail(r.error)) EXCEPT !.productsDb = r.pdb]
         ELSE LET id == issued.orders + 1
                  db == DbAdd(ordersDb, id, NewOrder(userId, r.orderItems, r.totalAmount))
              IN [Here(Ok(db[id])) EXCEPT
                    !.productsDb = r.pdb, !.ordersDb = db,
                    !.issued = [issued EXCEPT !.orders = id]]

CreateOrder(userId, items) == Apply(CreateOrderCall(userId, items))

GetOrderCall(orderId) ==
    IF orderId \notin DOMAIN ordersDb
    THEN Here(Fail("Order not found."))
    ELSE Here(Ok(ordersDb[orderId]))

GetOrder(orderId) == Apply(GetOrderCall(orderId))

GetUserOrdersCall(userId) ==
    Here(Ok({ordersDb[o] : o \in DbFindBy(ordersDb, "userId", userId)}))

GetUserOrders(userId) == Apply(GetUserOrdersCall(userId))

\* The cancellation branch of updateOrderStatus: every item's quantity goes
\* back to its product, if the product still exists.
RECURSIVE RestoreStock(_, _)
RestoreStock(orderItems, pdb) ==
    IF orderItems = <<>> THEN pdb
    ELSE LET item == Head(orderItems) IN
         IF item.productId \in DOMAIN pdb
         THEN RestoreStock(Tail(orderItems),
                           DbUpdate(pdb, item.productId,
                                    [stock |-> pdb[item.productId].stock + item.quantity]))
         ELSE RestoreStock(Tail(orderItems), pdb)

\* OrdersAfterStatus stamping the date at every Shipped and Delivered
OrdersAfterStatusRestamp(odb, orderId, newStatus, today) ==
    LET db1 == DbUpdate(odb, orderId, [status |-> newStatus])
    IN IF newStatus = "Shipped"
       THEN DbUpdate(db1, orderId, [shippedDate |-> {today}])
       ELSE IF newStatus = "Delivered"
       THEN DbUpdate(db1, orderId, [deliveredDate |-> {today}])
       ELSE db1

\* The order collection after the status update and the date branches.
OrdersAfterStatus(odb, orderId, newStatus, today) ==
    LET db1 == DbUpdate(odb, orderId, [status |-> newStatus])
        updatedOrder == db1[orderId]
    IN IF newStatus = "Shipped" /\ updatedOrder.shippedDate = {}
       THEN DbUpdate(db1, orderId, [shippedDate |-> {today}])
       ELSE IF newStatus = "Delivered" /\ updatedOrder.deliveredDate = {}
       THEN DbUpdate(db1, orderId, [deliveredDate |-> {today}])
       ELSE db1

\* The product collection after the cancellation branch.
ProductsAfterStatus(pdb, updatedOrder, newStatus) ==
    IF newStatus = "Cancelled" THEN RestoreStock(updatedOrder.items, pdb) ELSE pdb

UpdateOrderStatusCall(orderId, newStatus) ==
    IF orderId \notin DOMAIN ordersDb
    THEN Here(Fail("Order not found."))
    ELSE LET db == OrdersAfterStatus(ordersDb, orderId, newStatus, now)
             pdb == ProductsAfterStatus(productsDb, db[orderId], newStatus)
         IN [Here(Ok(db[orderId])) EXCEPT !.ordersDb = db, !.productsDb = pdb]

UpdateOrderStatus(orderId, newStatus) == Apply(UpdateOrderStatusCall(orderId, newStatus))

\* --------------------------------------------------------- PaymentService
\* PaymentInvalid without the comparison of the amounts
PaymentInvalidAnyAmount(odb, orderId, userId, amount) ==
    \/ orderId \notin DOMAIN odb
    \/ odb[orderId].userId # userId
    \/ odb[orderId].paymentStatus = "Paid"

\* PaymentInvalid without the test for an order paid already
PaymentInvalidRepay(odb, orderId, userId, amount) ==
    \/ orderId \notin DOMAIN odb
    \/ odb[orderId].userId # userId
    \/ odb[orderId].totalAmount # amount

\* the guard of processPayment
PaymentInvalid(odb, orderId, userId, amount) ==
    \/ orderId \notin DOMAIN odb
    \/ odb[orderId].userId # userId
    \/ odb[orderId].totalAmount # amount
    \/ odb[orderId].paymentStatus = "Paid"

\* OrdersAfterPayment marking the order Paid and leaving its status
OrdersAfterPaymentPaidOnly(odb, orderId, status) ==
    IF status = "Success"
    THEN DbUpdate(odb, orderId, [paymentStatus |-> "Paid"])
    ELSE odb

\* OrdersAfterPayment moving the order on and leaving it Unpaid
OrdersAfterPaymentStatusOnly(odb, orderId, status) ==
    IF status = "Success"
    THEN DbUpdate(odb, orderId, [status |-> "Processing"])
    ELSE odb

\* the order collection after a recorded payment of the given status
OrdersAfterPayment(odb, orderId, status) ==
    IF status = "Success"
    THEN DbUpdate(odb, orderId, [paymentStatus |-> "Paid", status |-> "Processing"])
    ELSE odb

\* `status` is the gateway's decision.
ProcessPaymentCall(orderId, userId, amount, status) ==
    IF PaymentInvalid(ordersDb, orderId, userId, amount)
    THEN Here(Fail("Invalid order or order already paid."))
    ELSE LET id == issued.payments + 1
             db == DbAdd(paymentsDb, id,
                         [orderId |-> orderId, userId |-> userId,
                          amount |-> amount, status |-> status])
             resp == IF status = "Success"
                     THEN Ok(db[id])
                     ELSE [success |-> FALSE, error |-> "Payment failed.",
                           data |-> {db[id]}]
         IN [Here(resp) EXCEPT
               !.paymentsDb = db,
               !.ordersDb = OrdersAfterPayment(ordersDb, orderId, status),
               !.issued = [issued EXCEPT !.payments = id]]

ProcessPayment(orderId, userId, amount, status) ==
    Apply(ProcessPaymentCall(orderId, userId, amount, status))

\* ---------------------------------------------------------- ReviewService
\* productReviews.reduce((sum, r) => sum + r.rating, 0)
RECURSIVE TotalRating(_, _)
TotalRating(rdb, ids) ==
    IF ids = {} THEN 0
    ELSE LET i == CHOOSE x \in ids : TRUE
         IN rdb[i].rating + TotalRating(rdb, ids \ {i})

\* ToFixed1 cutting the digits after the first decimal
ToFixed1Truncating(total, count) == (10 * total) \div count

\* parseFloat((total / count).toFixed(1)), in tenths: the tenth nearest to
\* the quotient, the larger of the two when it lies half-way.
ToFixed1(total, count) == (20 * total + count) \div (2 * count)

SubmitReviewCall(productId, userId, rating) ==
    IF rating < 1 \/ rating > 5
    THEN Here(Fail("Rating must be between 1 and 5."))
    ELSE IF productId \notin DOMAIN productsDb
    THEN Here(Fail("Product not found for review."))
    ELSE LET id == issued.reviews + 1
             rdb == DbAdd(reviewsDb, id,
                          [productId |-> productId, userId |-> userId,
                           rating |-> rating])
             productReviews == DbFindBy(rdb, "productId", productId)
             totalRating == TotalRating(rdb, productReviews)
             pdb == DbUpdate(productsDb, productId,
                             [rating |-> ToFixed1(totalRating, Cardinality(productReviews)),
                              reviewsCount |-> Cardinality(productReviews)])
         IN [Here(Ok(rdb[id])) EXCEPT
               !.reviewsDb = rdb, !.productsDb = pdb,
               !.issued = [issued EXCEPT !.reviews = id]]

SubmitReview(productId, userId, rating) ==
    Apply(SubmitReviewCall(productId, userId, rating))

\* the records of a findBy / getAll result
Records(db, ids) == {db[i] : i \in ids}

GetProductReviewsCall(productId) ==
    Here(Ok(Records(reviewsDb, DbFindBy(reviewsDb, "productId", productId))))

GetProductReviews(productId) == Apply(GetProductReviewsCall(productId))

GetUserReviewsCall(userId) ==
    Here(Ok(Records(reviewsDb, DbFindBy(reviewsDb, "userId", userId))))

GetUserReviews(userId) == Apply(GetUserReviewsCall(userId))

GetPaymentHistoryCall(userId) ==
    Here(Ok({paymentsDb[t] : t \in DbFindBy(paymentsDb, "userId", userId)}))

GetPaymentHistory(userId) == Apply(GetPaymentHistoryCall(userId))

\* amounts a caller may offer: every order's total, and values beside them
AmountInputs == {ordersDb[o].totalAmount : o \in DOMAIN ordersDb} \cup {0, 1}

\* ------------------------------------------------------------------ clock
Tick ==
    /\ now' = now + 1
    /\ UNCHANGED <<usersDb, productsDb, ordersDb, paymentsDb, reviewsDb,
                   collection, issued, batch, base>>

\* ------------------------------- InMemoryDatabase, ids and dates included
\* add: the id is built from Date.now() and the random tail, the dates are
\* read after `elapsed` more time; Map.set replaces a record of the same id.
RepoAddCall(item, tail, elapsed) ==
    LET id == <<now, tail>>
        db == DbAdd(collection, id,
                    Merge(item, [createdAt |-> now + elapsed,
                                 updatedAt |-> now + elapsed]))
    IN [collection |-> db, result |-> {db[id]}]

RepoAdd(item, tail, elapsed) ==
    /\ collection' = RepoAddCall(item, tail, elapsed).collection
    /\ now' = now + elapsed
    /\ UNCHANGED <<usersDb, productsDb, ordersDb, paymentsDb, reviewsDb,
                   issued, batch, base>>

\* Refreshed leaving updatedAt as the merge gives it
RefreshedNot(db, id, today) == db

\* { ...merged, updatedAt: new Date() }
Refreshed(db, id, today) == DbUpdate(db, id, [updatedAt |-> today])

\* update: undefined (no result) for an absent id
RepoUpdateCall(id, updates) ==
    IF id \notin DOMAIN collection
    THEN [collection |-> collection, result |-> {}]
    ELSE LET db == Refreshed(DbUpdate(collection, id, updates), id, now)
         IN [collection |-> db, result |-> {db[id]}]

RepoUpdate(id, updates) ==
    /\ collection' = RepoUpdateCall(id, updates).collection
    /\ UNCHANGED <<usersDb, productsDb, ordersDb, paymentsDb, reviewsDb,
                   issued, now, batch, base>>

RepoDelete(id) ==
    /\ collection' = DbDelete(collection, id)
    /\ UNCHANGED <<usersDb, productsDb, ordersDb, paymentsDb, reviewsDb,
                   issued, now, batch, base>>

\* --------------------------------------------------------- specifications
Init ==
    /\ usersDb = Empty
    /\ productsDb = Empty
    /\ ordersDb = Empty
    /\ paymentsDb = Empty
    /\ reviewsDb = Empty
    /\ collection = Empty
    /\ issued = [users |-> 0, products |-> 0, orders |-> 0, payments |-> 0,
                 reviews |-> 0]
    /\ now = 0
    /\ batch = <<>>
    /\ base = Empty

\* What bounds the model: the number of records of each kind, the range of
\* the stock and the range of the clock.
StockInRange(pdb) == \A p \in DOMAIN pdb : pdb[p].stock \in -MaxStock..MaxStock

InBounds(maxProducts, maxOrders, maxPayments) ==
    /\ issued'.users <= MaxUsers
    /\ issued'.products <= maxProducts
    /\ issued'.orders <= maxOrders
    /\ issued'.payments <= maxPayments
    /\ StockInRange(productsDb')
    /\ now' <= MaxClock

\* The order workflow and the stock: no payments, no catalog maintenance.
StockBounds == InBounds(MaxProducts, MaxOrders, 0)

NextStock ==
    \/ \E u \in Usernames, s \in Secrets : RegisterUser(u, s, 0) /\ StockBounds
    \/ \E p \in PriceInputs, s \in StockInputs : AddProduct(p, s) /\ StockBounds
    \/ \E u \in UserIds, items \in ItemLists : CreateOrder(u, items) /\ StockBounds
    \/ \E o \in OrderIds, st \in OrderStatus : UpdateOrderStatus(o, st) /\ StockBounds

SpecStock == Init /\ [][NextStock]_vars

\* Orders and their payments, with the catalog maintained meanwhile: orders
\* of at most one line item.
PayBounds == InBounds(MaxPayProducts, MaxOrders, MaxPayments)

ShortItemLists == {items \in ItemLists : Len(items) <= 1}

NextPay ==
    \/ Tick /\ PayBounds
    \/ \E u \in Usernames, s \in Secrets : RegisterUser(u, s, 0) /\ PayBounds
    \/ \E p \in PriceInputs, s \in StockInputs : AddProduct(p, s) /\ PayBounds
    \/ \E p \in ProductIds, upd \in ProductUpdates : UpdateProduct(p, upd) /\ PayBounds
    \/ \E p \in ProductIds : DeleteProduct(p) /\ PayBounds
    \/ \E u \in UserIds, items \in ShortItemLists : CreateOrder(u, items) /\ PayBounds
    \/ \E o \in OrderIds, st \in OrderStatus : UpdateOrderStatus(o, st) /\ PayBounds
    \/ \E o \in OrderIds, u \in UserIds, a \in AmountInputs, st \in GatewayOutcomes :
          ProcessPayment(o, u, a, st) /\ PayBounds
    \/ \E p \in ProductIds : GetProduct(p) /\ PayBounds
    \/ GetAllProducts /\ PayBounds
    \/ \E o \in OrderIds : GetOrder(o) /\ PayBounds
    \/ \E u \in UserIds : GetUserOrders(u) /\ PayBounds
    \/ \E u \in UserIds : GetPaymentHistory(u) /\ PayBounds

SpecPay == Init /\ [][NextPay]_vars

\* The catalog and its reviews.
ReviewBounds ==
    /\ issued'.products <= MaxReviewProducts
    /\ issued'.reviews <= MaxReviews

NextReview ==
    \/ \E p \in PriceInputs : AddProduct(p, 0) /\ ReviewBounds
    \/ \E p \in ProductIds, upd \in ReviewedProductUpdates :
          UpdateProduct(p, upd) /\ ReviewBounds
    \/ \E p \in ProductIds : DeleteProduct(p) /\ ReviewBounds
    \/ \E p \in ProductIds, u \in Reviewers, r \in RatingInputs :
          SubmitReview(p, u, r) /\ ReviewBounds
    \/ \E p \in ProductIds : GetProductReviews(p) /\ ReviewBounds
    \/ \E u \in UserIds : GetUserReviews(u) /\ ReviewBounds

SpecReview == Init /\ [][NextReview]_vars

\* One repository and the clock.
RepoBounds == now' <= MaxRepoClock

NextRepo ==
    \/ Tick /\ RepoBounds
    \/ \E item \in RepoItems, tail \in RandomTails, e \in Elapsed :
          RepoAdd(item, tail, e) /\ RepoBounds
    \/ \E id \in RepoIds, upd \in RepoUpdates : RepoUpdate(id, upd) /\ RepoBounds
    \/ \E id \in RepoIds : RepoDelete(id) /\ RepoBounds

SpecRepo == Init /\ [][NextRepo]_vars

\* The user directory and the clock.
UserBounds == issued'.users <= MaxDirUsers /\ now' <= MaxDirClock

NextUser ==
    \/ Tick /\ UserBounds
    \/ \E u \in Usernames, s \in DirSecrets, e \in Elapsed :
          RegisterUser(u, s, e) /\ UserBounds
    \/ \E u \in Usernames, s \in DirSecrets : AuthenticateUser(u, s) /\ UserBounds
    \/ \E id \in DirUserIds : GetUserProfile(id) /\ UserBounds
    \/ \E id \in DirUserIds, upd \in ProfileUpdates :
          UpdateUserProfile(id, upd) /\ UserBounds

SpecUser == Init /\ [][NextUser]_vars

\* Two createOrder calls started together, as in
\* Promise.all([createOrder(..), createOrder(..)]): the shop has one user
\* and MaxProducts products, and the calls share a product.  A started
\* call runs its whole body in one step; the two run in either order.
BatchSize == 2

Mentions(items, p) == \E i \in 1..Len(items) : items[i].productId = p

InitConc ==
    /\ usersDb = DbAdd(Empty, 1, [username |-> "alice",
                                  passwordHash |-> Hashed("pw", 0),
                                  createdAt |-> 0])
    /\ \E price \in [ProductIds -> {p \in PriceInputs : p > 0}],
          stock \in [ProductIds -> {s \in StockInputs : s >= 0}] :
          /\ productsDb = [p \in ProductIds |->
                             [id |-> p, price |-> price[p], stock |-> stock[p]]]
          /\ base = stock
    /\ ordersDb = Empty
    /\ paymentsDb = Empty
    /\ reviewsDb = Empty
    /\ collection = Empty
    /\ issued = [users |-> 1, products |-> MaxProducts, orders |-> 0, payments |-> 0,
                 reviews |-> 0]
    /\ now = 0
    /\ \E calls \in [1..BatchSize -> ItemLists] :
          /\ \E p \in ProductIds : \A i \in 1..BatchSize : Mentions(calls[i], p)
          /\ batch = [i \in 1..BatchSize |->
                        [userId |-> 1, items |-> calls[i], outcome |-> "started"]]

RunCall(i) ==
    /\ batch[i].outcome = "started"
    /\ LET c == CreateOrderCall(batch[i].userId, batch[i].items) IN
         /\ ApplyDb(c)
         /\ batch' = [batch EXCEPT
                        ![i].outcome = IF c.resp.success THEN "ok" ELSE "failed"]
    /\ UNCHANGED <<now, base>>

NextConc == \E i \in 1..BatchSize : RunCall(i)

SpecConc == InitConc /\ [][NextConc]_vars

\* ================================================================ claims
\* the total quantity the line items ask of product p
RECURSIVE SumQty(_, _)
SumQty(items, p) ==
    IF items = <<>> THEN 0
    ELSE (IF Head(items).productId = p THEN Head(items).quantity ELSE 0)
            + SumQty(Tail(items), p)

\* the sum of priceAtOrder * quantity over captured items
RECURSIVE SumSubtotals(_)
SumSubtotals(orderItems) ==
    IF orderItems = <<>> THEN 0
    ELSE Head(orderItems).priceAtOrder * Head(orderItems).quantity
            + SumSubtotals(Tail(orderItems))

\* C1: whenever a createOrder call fails, every product's stock is after the
\* call what it was before it, and no order has been created.
C1_CreateOrderAllOrNothing ==
    [][\A u \in UserIds, items \in ItemLists :
          (CreateOrder(u, items) /\ ~CreateOrderCall(u, items).resp.success)
             => (productsDb' = productsDb /\ ordersDb' = ordersDb)]_vars

\* C2: setStatus(order, Cancelled) gives every ordered product its quantity
\* back when the order is not yet cancelled, and leaves every product's
\* stock unchanged when the order is cancelled already.
C2_CancelRestoresOnce ==
    [][\A o \in DOMAIN ordersDb :
          UpdateOrderStatus(o, "Cancelled") =>
             \A p \in DOMAIN productsDb :
                productsDb'[p].stock =
                   IF ordersDb[o].status = "Cancelled"
                   THEN productsDb[p].stock
                   ELSE productsDb[p].stock + SumQty(ordersDb[o].items, p)]_vars

\* C3: in every state reached by addProduct, createOrder and setStatus
\* calls, every product's stock is >= 0.
C3_StockNeverNegative ==
    \A p \in DOMAIN productsDb : productsDb[p].stock >= 0

\* the quantity of product p that the successful calls of the batch reserved
RECURSIVE Reserved(_, _)
Reserved(calls, p) ==
    IF calls = <<>> THEN 0
    ELSE (IF Head(calls).outcome = "ok" THEN SumQty(Head(calls).items, p) ELSE 0)
            + Reserved(Tail(calls), p)

\* C4: while two createOrder calls started together run, in either order,
\* every product's stock stays >= 0 and the quantity their successful calls
\* reserved of a product does not exceed its stock before the calls.
C4_NoOversell ==
    \A p \in DOMAIN base :
        /\ productsDb[p].stock >= 0
        /\ Reserved(batch, p) <= base[p]

\* C5: a successful createOrder takes from every product the quantity its
\* line items ask of it, and returns a new order, Pending and Unpaid, whose
\* items carry the requested products and quantities at the products'
\* current prices and whose totalAmount is the sum of priceAtOrder * quantity.
C5_CreateOrderEffect ==
    \A u \in UserIds, items \in ItemLists :
        LET c == CreateOrderCall(u, items) IN
        c.resp.success =>
            /\ \A p \in DOMAIN productsDb :
                  /\ p \in DOMAIN c.productsDb
                  /\ c.productsDb[p].stock = productsDb[p].stock - SumQty(items, p)
                  /\ c.productsDb[p].price = productsDb[p].price
            /\ \E id \in DOMAIN c.ordersDb \ DOMAIN ordersDb :
                  LET order == c.ordersDb[id] IN
                  /\ DOMAIN c.ordersDb = DOMAIN ordersDb \cup {id}
                  /\ c.resp.data = {order}
                  /\ order.userId = u
                  /\ order.status = "Pending"
                  /\ order.paymentStatus = "Unpaid"
                  /\ Len(order.items) = Len(items)
                  /\ \A i \in 1..Len(items) :
                        /\ order.items[i].productId = items[i].productId
                        /\ order.items[i].quantity = items[i].quantity
                        /\ order.items[i].priceAtOrder = productsDb[items[i].productId].price
                  /\ order.totalAmount = SumSubtotals(order.items)

\* An order of two line items for two products of different prices has been
\* created and is still Pending.
C5_Witness ==
    \E o \in DOMAIN ordersDb :
        /\ ordersDb[o].status = "Pending"
        /\ Len(ordersDb[o].items) = 2
        /\ ordersDb[o].items[1].productId # ordersDb[o].items[2].productId
        /\ ordersDb[o].items[1].priceAtOrder # ordersDb[o].items[2].priceAtOrder

\* the recorded transactions with status Success that match order o
SuccessFor(o) ==
    {t \in DOMAIN paymentsDb :
        /\ paymentsDb[t].status = "Success"
        /\ paymentsDb[t].orderId = o
        /\ paymentsDb[t].userId = ordersDb[o].userId
        /\ paymentsDb[t].amount = ordersDb[o].totalAmount}

\* C6: every order with paymentStatus Paid has a recorded transaction with
\* status Success for its id, its userId and its totalAmount.
C6_PaidHasSuccess ==
    \A o \in DOMAIN ordersDb :
        ordersDb[o].paymentStatus = "Paid" => SuccessFor(o) # {}

\* A paid order has gone on to Delivered.
C6_Witness ==
    \E o \in DOMAIN ordersDb :
        ordersDb[o].paymentStatus = "Paid" /\ ordersDb[o].status = "Delivered"

\* C7: processPayment for an absent order, for an order of another user,
\* with an amount other than the order's totalAmount, or for a Paid order
\* fails, records no transaction and leaves every order as it was.
C7_RejectedPayment ==
    \A o \in OrderIds, u \in UserIds, a \in AmountInputs, st \in GatewayOutcomes :
        LET c == ProcessPaymentCall(o, u, a, st)
            absent == o \notin DOMAIN ordersDb
        IN (absent \/ ordersDb[o].userId # u \/ ordersDb[o].totalAmount # a
                   \/ ordersDb[o].paymentStatus = "Paid")
           => /\ ~c.resp.success
              /\ c.resp.error # ""
              /\ c.resp.data = {}
              /\ c.paymentsDb = paymentsDb
              /\ c.ordersDb = ordersDb

\* An order has been paid, so that paying it again is refused, and an order
\* id is absent: calls of the four rejected kinds exist here.
C7_Witness ==
    /\ \E o \in DOMAIN ordersDb :
          /\ ordersDb[o].paymentStatus = "Paid"
          /\ ~ProcessPaymentCall(o, ordersDb[o].userId,
                                 ordersDb[o].totalAmount, "Success").resp.success
    /\ \E o \in OrderIds : o \notin DOMAIN ordersDb
    /\ \E t \in DOMAIN paymentsDb : paymentsDb[t].status = "Success"

\* C8: a processPayment call that passes validation records exactly one
\* transaction, with the gateway's status.  On Success the order becomes Paid
\* and Processing and the response is a success carrying the transaction; on
\* Failed every order stays as it was and the response is a failure carrying
\* an error and the transaction.
C8_PaymentRecorded ==
    \A o \in DOMAIN ordersDb, u \in UserIds, a \in AmountInputs, st \in GatewayOutcomes :
        LET c == ProcessPaymentCall(o, u, a, st) IN
        ~PaymentInvalid(ordersDb, o, u, a) =>
            \E t \in DOMAIN c.paymentsDb \ DOMAIN paymentsDb :
                /\ DOMAIN c.paymentsDb = DOMAIN paymentsDb \cup {t}
                /\ \A x \in DOMAIN paymentsDb : c.paymentsDb[x] = paymentsDb[x]
                /\ c.paymentsDb[t].orderId = o
                /\ c.paymentsDb[t].userId = u
                /\ c.paymentsDb[t].amount = a
                /\ c.paymentsDb[t].status = st
                /\ c.resp.data = {c.paymentsDb[t]}
                /\ \A x \in DOMAIN ordersDb \ {o} : c.ordersDb[x] = ordersDb[x]
                /\ IF st = "Success"
                   THEN /\ c.ordersDb[o].paymentStatus = "Paid"
                        /\ c.ordersDb[o].status = "Processing"
                        /\ c.resp.success
                   ELSE /\ c.ordersDb[o] = ordersDb[o]
                        /\ ~c.resp.success
                        /\ c.resp.error # ""

\* An order's payment has failed once and then succeeded: both transactions
\* are recorded.
C8_Witness ==
    \E t1, t2 \in DOMAIN paymentsDb :
        /\ paymentsDb[t1].status = "Failed"
        /\ paymentsDb[t2].status = "Success"
        /\ paymentsDb[t1].orderId = paymentsDb[t2].orderId
        /\ ordersDb[paymentsDb[t2].orderId].paymentStatus = "Paid"

\* C9: a step in which an order enters status Processing is a processPayment
\* call that the gateway lets succeed.
C9_ProcessingOnlyByPayment ==
    [][\A o \in DOMAIN ordersDb :
          (ordersDb[o].status # "Processing" /\ ordersDb'[o].status = "Processing")
             => \E u \in UserIds, a \in AmountInputs :
                   /\ ProcessPayment(o, u, a, "Success")
                   /\ ProcessPaymentCall(o, u, a, "Success").resp.success]_vars

\* C10: no step changes the totalAmount of an order or the priceAtOrder of
\* one of its items.
C10_TotalsFrozen ==
    [][\A o \in DOMAIN ordersDb :
          /\ o \in DOMAIN ordersDb'
          /\ ordersDb'[o].totalAmount = ordersDb[o].totalAmount
          /\ Len(ordersDb'[o].items) = Len(ordersDb[o].items)
          /\ \A i \in 1..Len(ordersDb[o].items) :
                ordersDb'[o].items[i].priceAtOrder = ordersDb[o].items[i].priceAtOrder]_vars

\* An order has been paid, and its product now has another price than the
\* order captured.
C10_Witness ==
    \E o \in DOMAIN ordersDb :
        /\ ordersDb[o].paymentStatus = "Paid"
        /\ Len(ordersDb[o].items) = 1
        /\ ordersDb[o].items[1].productId \in DOMAIN productsDb
        /\ productsDb[ordersDb[o].items[1].productId].price
              # ordersDb[o].items[1].priceAtOrder

\* the reviews of the collection rdb that reference product p
ReviewsOf(rdb, p) == DbFindBy(rdb, "productId", p)

\* tenths is total / count rounded to one decimal: no tenth is nearer
IsMeanRounded(tenths, total, count) ==
    LET d == 10 * total - tenths * count
    IN 2 * (IF d < 0 THEN -d ELSE d) <= count

\* pdb[p] carries the count and the rounded mean of its reviews in rdb
AggregateMatches(pdb, rdb, p) ==
    LET rs == ReviewsOf(rdb, p) IN
    /\ {"rating", "reviewsCount"} \subseteq DOMAIN pdb[p]
    /\ pdb[p].reviewsCount = Cardinality(rs)
    /\ IsMeanRounded(pdb[p].rating, TotalRating(rdb, rs), Cardinality(rs))

\* C11: in every state reached by submitReview and updateProduct calls,
\* every product with at least one review has reviewsCount equal to the
\* number of its reviews and rating equal to their mean rounded to one
\* decimal.
C11_RatingMatchesReviews ==
    \A p \in DOMAIN productsDb :
        ReviewsOf(reviewsDb, p) # {} => AggregateMatches(productsDb, reviewsDb, p)

\* C12: a successful submitReview stores one new review of the product and
\* leaves the product with reviewsCount equal to the number of its reviews,
\* the new one included, and rating equal to their mean rounded to one
\* decimal; ratings 5, 3, 4 in turn give 4.0 and 3.
C12_SubmitReviewAggregates ==
    /\ \A p \in ProductIds, u \in Reviewers, r \in RatingInputs :
          LET c == SubmitReviewCall(p, u, r) IN
          c.resp.success =>
              \E id \in DOMAIN c.reviewsDb \ DOMAIN reviewsDb :
                  /\ DOMAIN c.reviewsDb = DOMAIN reviewsDb \cup {id}
                  /\ \A x \in DOMAIN reviewsDb : c.reviewsDb[x] = reviewsDb[x]
                  /\ c.reviewsDb[id].productId = p
                  /\ c.reviewsDb[id].userId = u
                  /\ c.reviewsDb[id].rating = r
                  /\ c.resp.data = {c.reviewsDb[id]}
                  /\ AggregateMatches(c.productsDb, c.reviewsDb, p)
    /\ ToFixed1(5 + 3 + 4, 3) = 40

\* A product has got the ratings 5, 3 and 4 in turn and carries 4.0 and 3;
\* another product exists beside it.
C12_Witness ==
    \E p \in DOMAIN productsDb :
        /\ ReviewsOf(reviewsDb, p) = {1, 2, 3}
        /\ <<reviewsDb[1].rating, reviewsDb[2].rating, reviewsDb[3].rating>> = <<5, 3, 4>>
        /\ productsDb[p].rating = 40
        /\ productsDb[p].reviewsCount = 3
        /\ DOMAIN productsDb # {p}

\* C13: in every state reached by registerUser and updateUserProfile calls,
\* no two stored users have the same username.
C13_UsernamesUnique ==
    \A a, b \in DOMAIN usersDb :
        a # b => usersDb[a].username # usersDb[b].username

\* C14: every add stores its record under an id the collection does not
\* hold yet, whatever the clock and the random tail are: no record is
\* replaced and the collection grows by one.
C14_AddIssuesFreshId ==
    [][\A item \in RepoItems, tail \in RandomTails, e \in Elapsed :
          RepoAdd(item, tail, e) =>
             /\ \A r \in RepoAddCall(item, tail, e).result :
                   r.id \notin DOMAIN collection
             /\ \A id \in DOMAIN collection : collection'[id] = collection[id]
             /\ Cardinality(DOMAIN collection') = Cardinality(DOMAIN collection) + 1]_vars

\* C15: whenever registerUser(username, secret) succeeds, however much time
\* passes inside the call, authenticateUser with the same username and
\* secret then succeeds with the new user, and with another secret it fails
\* with "Invalid credentials.".
C15_RegisterThenAuthenticate ==
    [][\A u \in Usernames, s \in DirSecrets, e \in Elapsed :
          (RegisterUser(u, s, e) /\ RegisterUserCall(u, s, e).resp.success)
             => /\ Authenticate(usersDb', u, s) = Ok(usersDb'[issued'.users])
                /\ \A s2 \in DirSecrets \ {s} :
                      Authenticate(usersDb', u, s2) = Fail("Invalid credentials.")]_vars

\* a failure carries an error, a success carries data
Shaped(r) ==
    /\ ~r.success => r.error # ""
    /\ r.success => r.data # {}

\* C16: every response of a service operation with success false carries an
\* error, and every response with success true carries data.
C16_EnvelopeShape ==
    /\ \A u \in Usernames, s \in DirSecrets, e \in Elapsed :
          Shaped(RegisterUserCall(u, s, e).resp)
    /\ \A u \in Usernames, s \in DirSecrets : Shaped(AuthenticateUserCall(u, s).resp)
    /\ \A id \in DirUserIds : Shaped(GetUserProfileCall(id).resp)
    /\ \A id \in DirUserIds, upd \in ProfileUpdates :
          Shaped(UpdateUserProfileCall(id, upd).resp)
    /\ \A p \in PriceInputs, st \in StockInputs : Shaped(AddProductCall(p, st).resp)
    /\ \A p \in ProductIds : Shaped(GetProductCall(p).resp)
    /\ Shaped(GetAllProductsCall.resp)
    /\ \A p \in ProductIds, upd \in ProductUpdates :
          Shaped(UpdateProductCall(p, upd).resp)
    /\ \A p \in ProductIds : Shaped(DeleteProductCall(p).resp)
    /\ \A u \in UserIds, items \in ItemLists : Shaped(CreateOrderCall(u, items).resp)
    /\ \A o \in OrderIds : Shaped(GetOrderCall(o).resp)
    /\ \A u \in UserIds : Shaped(GetUserOrdersCall(u).resp)
    /\ \A o \in OrderIds, st \in OrderStatus :
          Shaped(UpdateOrderStatusCall(o, st).resp)
    /\ \A o \in OrderIds, u \in UserIds, a \in AmountInputs, st \in GatewayOutcomes :
          Shaped(ProcessPaymentCall(o, u, a, st).resp)
    /\ \A u \in UserIds : Shaped(GetPaymentHistoryCall(u).resp)
    /\ \A p \in ProductIds, u \in Reviewers, r \in RatingInputs :
          Shaped(SubmitReviewCall(p, u, r).resp)
    /\ \A p \in ProductIds : Shaped(GetProductReviewsCall(p).resp)
    /\ \A u \in UserIds : Shaped(GetUserReviewsCall(u).resp)

\* An order's payment has failed, its product has been deleted since and
\* the order is cancelled: the services answer here with failures of every
\* kind, a failure that carries data among them, and with successes.
C16_Witness ==
    \E o \in DOMAIN ordersDb :
        /\ ordersDb[o].status = "Cancelled"
        /\ ordersDb[o].items # <<>>
        /\ productsDb = Empty
        /\ \E t \in DOMAIN paymentsDb : paymentsDb[t].status = "Failed"
        /\ LET r == ProcessPaymentCall(o, ordersDb[o].userId,
                                       ordersDb[o].totalAmount, "Failed").resp
           IN ~r.success /\ r.data # {}
        /\ ~DeleteProductCall(1).resp.success
        /\ GetOrderCall(o).resp.success

\* C17: update of a stored record returns the record it stores, which has
\* the provided fields as provided (updatedAt apart), updatedAt at the time
\* of the call and not before createdAt, and every other field, id and
\* createdAt among them, as before; the other records stay as they were.
\* update of an absent id returns nothing and leaves the collection alone.
C17_UpdateFrame ==
    \A id \in RepoIds, upd \in RepoUpdates :
        LET c == RepoUpdateCall(id, upd) IN
        IF id \in DOMAIN collection
        THEN LET old == collection[id]
                 new == c.collection[id]
             IN /\ c.result = {new}
                /\ DOMAIN c.collection = DOMAIN collection
                /\ \A x \in DOMAIN collection \ {id} : c.collection[x] = collection[x]
                /\ DOMAIN new = DOMAIN old \cup DOMAIN upd
                /\ \A f \in DOMAIN upd \ {"updatedAt"} : new[f] = upd[f]
                /\ \A f \in DOMAIN old \ (DOMAIN upd \cup {"updatedAt"}) : new[f] = old[f]
                /\ new.id = old.id
                /\ new.createdAt = old.createdAt
                /\ new.updatedAt = now
                /\ new.updatedAt >= new.createdAt
        ELSE c.result = {} /\ c.collection = collection

\* A record created at time 1 has been given a note, and an update naming
\* updatedAt 0 would now reach it; another record is stored beside it.
C17_Witness ==
    \E id \in DOMAIN collection :
        /\ collection[id].createdAt = 1
        /\ "note" \in DOMAIN collection[id]
        /\ collection[id].updatedAt = 1
        /\ DOMAIN collection # {id}

\* C18: no response of registerUser, authenticateUser, getUserProfile or
\* updateUserProfile carries a passwordHash.
C18_HashNeverExposed ==
    LET Stripped(r) == \A d \in r.data : "passwordHash" \notin DOMAIN d IN
    /\ \A u \in Usernames, s \in DirSecrets, e \in Elapsed :
          Stripped(RegisterUserCall(u, s, e).resp)
    /\ \A u \in Usernames, s \in DirSecrets :
          Stripped(AuthenticateUserCall(u, s).resp)
    /\ \A id \in DirUserIds : Stripped(GetUserProfileCall(id).resp)
    /\ \A id \in DirUserIds, upd \in ProfileUpdates :
          Stripped(UpdateUserProfileCall(id, upd).resp)

\* C19: an order's shippedDate is set, to the time of the call, by the
\* updateOrderStatus(order, Shipped) that finds it unset, and its
\* deliveredDate by the updateOrderStatus(order, Delivered) that finds it
\* unset; no step changes either date once it is set.
C19_DatesWriteOnce ==
    [][\A o \in DOMAIN ordersDb :
          /\ ordersDb[o].shippedDate # {} =>
                ordersDb'[o].shippedDate = ordersDb[o].shippedDate
          /\ ordersDb[o].deliveredDate # {} =>
                ordersDb'[o].deliveredDate = ordersDb[o].deliveredDate
          /\ (UpdateOrderStatus(o, "Shipped") /\ ordersDb[o].shippedDate = {}) =>
                ordersDb'[o].shippedDate = {now}
          /\ (UpdateOrderStatus(o, "Delivered") /\ ordersDb[o].deliveredDate = {}) =>
                ordersDb'[o].deliveredDate = {now}]_vars

\* An order shipped at time 0 was delivered at time 1 and has been set to
\* Shipped again after that, and paid: its shippedDate is still 0.
C19_Witness ==
    \E o \in DOMAIN ordersDb :
        /\ ordersDb[o].shippedDate = {0}
        /\ ordersDb[o].deliveredDate = {1}
        /\ ordersDb[o].status = "Shipped"
        /\ ordersDb[o].paymentStatus = "Paid"

\* C20: a processPayment call that the gateway lets succeed never moves an
\* order whose status is Cancelled, Shipped or Delivered to Processing.
C20_PaymentAdvancesOnlyPending ==
    [][\A o \in DOMAIN ordersDb, u \in UserIds, a \in AmountInputs :
          (/\ ProcessPayment(o, u, a, "Success")
           /\ ordersDb[o].status \in {"Cancelled", "Shipped", "Delivered"})
             => ordersDb'[o].status # "Processing"]_vars

\* the quantity of product p in the line items of the orders of ids that
\* are not Cancelled
RECURSIVE Held(_, _, _)
Held(odb, ids, p) ==
    IF ids = {} THEN 0
    ELSE LET o == CHOOSE x \in ids : TRUE
         IN (IF odb[o].status # "Cancelled" THEN SumQty(odb[o].items, p) ELSE 0)
               + Held(odb, ids \ {o}, p)

\* C21: a product is added with no order holding any of it, and no step
\* changes the sum of its stock and of the quantities of it that the orders
\* not Cancelled hold: the sum stays the stock the product was added with.
C21_StockConserved ==
    [][/\ \A p \in DOMAIN productsDb' \ DOMAIN productsDb :
             Held(ordersDb', DOMAIN ordersDb', p) = 0
       /\ \A p \in DOMAIN productsDb \cap DOMAIN productsDb' :
             productsDb'[p].stock + Held(ordersDb', DOMAIN ordersDb', p)
                = productsDb[p].stock + Held(ordersDb, DOMAIN ordersDb, p)]_vars

\* the recorded transactions with status Success for order id o
ChargesOf(o) ==
    {t \in DOMAIN paymentsDb :
        paymentsDb[t].status = "Success" /\ paymentsDb[t].orderId = o}

\* C22: in every state at most one recorded transaction with status Success
\* exists per order id, and no step takes an order from Paid to Unpaid.
C22_NoDoubleCharge ==
    /\ [](\A o \in OrderIds : Cardinality(ChargesOf(o)) <= 1)
    /\ [][\A o \in DOMAIN ordersDb :
             ordersDb[o].paymentStatus = "Paid" =>
                (o \in DOMAIN ordersDb' /\ ordersDb'[o].paymentStatus = "Paid")]_vars

\* An order was paid at the second attempt, after a failed one, and has been
\* cancelled since: it is still Paid, it has one Success transaction, and a
\* further payment of it is refused.
C22_Witness ==
    \E o \in DOMAIN ordersDb :
        /\ ordersDb[o].paymentStatus = "Paid"
        /\ ordersDb[o].status = "Cancelled"
        /\ Cardinality(ChargesOf(o)) = 1
        /\ \E t \in DOMAIN paymentsDb :
              paymentsDb[t].status = "Failed" /\ paymentsDb[t].orderId = o
        /\ \A st \in GatewayOutcomes :
              ~ProcessPaymentCall(o, ordersDb[o].userId,
                                  ordersDb[o].totalAmount, st).resp.success

====
